---------------------------- MODULE Spec2Model ----------------------------
(***************************************************************************)
(* The AHB-lite responder of cocotbext/ahb/ahb_slave.py as a state machine *)
(* that advances once per rising clock edge (AHBLiteSlave._proc_txn).      *)
(*                                                                         *)
(* Signal values.  hready is a one-bit signal: "0", "1" or "Z" (the        *)
(* unresolved default).  hresp is "OKAY", "ERROR" or "Z".  Multi-bit       *)
(* signals driven by the responder (hrdata) are records [res, val]: Val(n) *)
(* is the resolved integer n, Unres an unresolvable vector.  The value the *)
(* responder samples on hready and hresp at an edge is the value it drove  *)
(* on the previous edge (it is their only driver).  An unresolved one-bit  *)
(* value is neither true (`rd_start and cur_hready`) nor equal to 1        *)
(* (`cur_hready == 1`).                                                    *)
(***************************************************************************)
EXTENDS Integers, Sequences, FiniteSets, TLC

\* ------------------------------------------------------------- bounds
\* Bytes of the storage backend (mem_size; the code's default is 1024).
MemSize == 2
\* Addresses the master presents are 0..MaxAddr.
MaxAddr == 1
\* Size classes the master presents are 0..MaxSize (BYTE=0, HWORD=1, WORD=2).
MaxSize == 2

\* Data bus widths, in bytes, of the instances explored.
DataWidths == {2}
\* Raw write-data patterns; the bus carries them cut to its width.
HwdataRaw == {421, 602}      \* 0x01A5, 0x025A

Val(n) == [res |-> TRUE, val |-> n]
Unres == [res |-> FALSE, val |-> 0]

RECURSIVE Pow2(_)
Pow2(n) == IF n = 0 THEN 1 ELSE 2 * Pow2(n - 1)

\* ------------------------------------------------------------- state
VARIABLES
    cfg,        \* construction-time configuration of the instance
    wvals,      \* the write-data values the master drives in this run
    wr_start, rd_start, error,          \* _proc_txn locals
    txn_addr, txn_size, txn_type,       \* the latched address phase
    hready, hresp, hrdata,              \* the driven outputs
    memory,     \* storage backend (memory-backed responder)
    fatal,      \* the task ended with an exception
    ev,         \* what the last edge did (which lines of _proc_txn ran)
    obs,        \* what the master and the backpressure source presented
    rej_hist,   \* rejection on the last edge, the one before, ...
    last_wr     \* the most recent write dispatched to the write hook

vars == <<cfg, wvals, wr_start, rd_start, error, txn_addr, txn_size, txn_type,
          hready, hresp, hrdata, memory, fatal, ev, obs, rej_hist, last_wr>>

\* The instances explored.  With both optional wires present: the
\* memory-backed responder with every default drive value, with and without
\* a backpressure source, and the base responder with every default drive
\* value and a backpressure source (a source that always grants behaves as
\* no source).  The other wire combinations on one instance.
AllConfigs ==
    [variant : {"base", "ram"}, def_val : {"0", "1", "Z"}, bp : BOOLEAN,
     hsel_exist : BOOLEAN, hready_in_exist : BOOLEAN, data_width : DataWidths]

Configs ==
    {c \in AllConfigs :
        \/ c.hsel_exist /\ c.hready_in_exist /\ (c.variant = "ram" \/ c.bp)
        \/ c.variant = "ram" /\ c.def_val = "0" /\ c.bp}

\* ------------------------------------------------------------- helpers
\* int.from_bytes(memory.read(addr, n), "little")
RECURSIVE MemRead(_, _, _)
MemRead(mem, addr, n) ==
    IF n = 0 THEN 0 ELSE mem[addr] + 256 * MemRead(mem, addr + 1, n - 1)

\* memory.write(addr, data.to_bytes(n, "little"))
MemWrite(mem, addr, n, data) ==
    [a \in DOMAIN mem |->
        IF a >= addr /\ a < addr + n
        THEN (data \div Pow2(8 * (a - addr))) % 256
        ELSE mem[a]]

\* The bytes addr .. addr+n-1 all lie inside the storage; outside it the
\* backend fails with its own bounds error.
MemInBounds(addr, n) == addr >= 0 /\ addr + n <= MemSize

\* _get_def(1): the default drive value of a one-bit signal
GetDef == cfg.def_val

\* _get_def(len(hrdata)): every bit of the vector at the default value
GetDefData ==
    IF cfg.def_val = "Z" THEN Unres
    ELSE IF cfg.def_val = "0" THEN Val(0)
    ELSE Val(Pow2(8 * cfg.data_width) - 1)

\* _init_bus on hresp (one bit: 0 is OKAY, 1 is ERROR)
GetDefResp ==
    IF cfg.def_val = "Z" THEN "Z" ELSE IF cfg.def_val = "0" THEN "OKAY" ELSE "ERROR"

\* Faulty variant: any sampled hready other than 0 counts as ready.
IsOne_NotZero(v) == v # "0"

\* Faulty variant: an unresolved sampled hready counts as true.
Truthy_NotZero(v) == v # "0"

\* `rd_start and cur_hready`: truth value of the sampled hready
Truthy(v) == v = "1"

\* Faulty variant: the byte count is compared with the bus width in bits.
CheckSizeRaises_Bits(size, data_bus_width) ==
    \/ size > 8 * data_bus_width
    \/ size <= 0

\* `cur_hready == 1`
IsOne(v) == v = "1"

\* Faulty variant: hsize is left out of the resolvability check.
CheckInputs_SkipSize(c) ==
    /\ c.htrans # "X"
    /\ c.hwrite # "X"
    /\ c.haddr # "X"

\* _check_size: TRUE when it raises
CheckSizeRaises(size, data_bus_width) ==
    \/ size > data_bus_width
    \/ size <= 0
    \/ \A k \in 0..(MaxSize + 1) : size # Pow2(k)

\* _check_inputs
CheckInputs(c) ==
    /\ c.htrans # "X"
    /\ c.hwrite # "X"
    /\ c.haddr # "X"
    /\ c.hsize # "X"

\* _check_valid_txn
CheckValidTxn(c) ==
    LET htrans_st == c.htrans # "IDLE" /\ c.htrans # "BUSY" IN
    IF cfg.hsel_exist
    THEN IF cfg.hready_in_exist
         THEN c.hsel = "1" /\ c.hready_in = "1" /\ htrans_st
         ELSE c.hsel = "1" /\ htrans_st
    ELSE htrans_st

\* Faulty variant: the write bound is one byte too generous.
ChkWr_OffByOne(addr, size) ==
    IF cfg.variant = "ram" THEN ~(addr + Pow2(size) > MemSize + 1) ELSE TRUE

\* _chk_rd / _chk_wr
ChkRd(addr, size) ==
    IF cfg.variant = "ram" THEN ~(addr + Pow2(size) > MemSize) ELSE TRUE

ChkWr(addr, size) ==
    IF cfg.variant = "ram" THEN ~(addr + Pow2(size) > MemSize) ELSE TRUE

\* Faulty variant: every size class is masked as a byte.
WrMask_Byte(size, value) == value % 256

\* _rd
Rd(mem, addr, size) ==
    IF cfg.variant = "ram" THEN MemRead(mem, addr, Pow2(size)) ELSE 0

\* _wr: the storage after the call (the call returns 0)
WrMask(size, value) == value % Pow2(8 * Pow2(size))

Wr(mem, addr, size, value) ==
    IF cfg.variant = "ram"
    THEN MemWrite(mem, addr, Pow2(size), WrMask(size, value))
    ELSE mem

NoEv ==
    [err_step |-> 0, rd_done |-> FALSE, wr_done |-> FALSE, wr_call |-> FALSE,
     latched |-> FALSE, chk_call |-> FALSE, rd_call |-> FALSE,
     rejected |-> FALSE, raised |-> FALSE, wr_value |-> 0, bp_next |-> 0]

\* The machine as one record, so that the steps of an edge compose.
Machine ==
    [wr_start |-> wr_start, rd_start |-> rd_start, error |-> error,
     txn_addr |-> txn_addr, txn_size |-> txn_size, txn_type |-> txn_type,
     hready |-> hready, hresp |-> hresp, hrdata |-> hrdata,
     memory |-> memory, fatal |-> fatal, ev |-> NoEv]

\* Faulty variant: the second error cycle does not clear the flag.
ErrorStep_KeepFlag(m, cur_hresp) ==
    IF cur_hresp = "OKAY"
    THEN [m EXCEPT !.hready = "0", !.hresp = "ERROR", !.ev.err_step = 1]
    ELSE [m EXCEPT !.hready = "1", !.hresp = "ERROR", !.ev.err_step = 2]

\* Faulty variant: the second error cycle leaves hready to the backpressure.
ErrorStep_Cycle2NotReady(m, cur_hresp) ==
    IF cur_hresp = "OKAY"
    THEN [m EXCEPT !.hready = "0", !.hresp = "ERROR", !.ev.err_step = 1]
    ELSE [m EXCEPT !.hresp = "ERROR", !.error = FALSE, !.ev.err_step = 2]

\* Faulty variant: the first error cycle leaves hready to the backpressure.
ErrorStep_Cycle1Advisory(m, cur_hresp) ==
    IF cur_hresp = "OKAY"
    THEN [m EXCEPT !.hresp = "ERROR", !.ev.err_step = 1]
    ELSE [m EXCEPT !.hready = "1", !.hresp = "ERROR", !.error = FALSE,
                   !.ev.err_step = 2]

\* Faulty variant: a grant of the backpressure source is ignored.
Defaults_IgnoreGrant(m, ready) ==
    [m EXCEPT !.hready = GetDef, !.hresp = "OKAY",
              !.ev.bp_next = IF cfg.bp THEN 1 ELSE 0]

\* Faulty variant: on a denial hready keeps the value driven before.
Defaults_KeepOnDenial(m, ready) ==
    [m EXCEPT !.hready = IF ready THEN "1" ELSE m.hready, !.hresp = "OKAY",
              !.ev.bp_next = IF cfg.bp THEN 1 ELSE 0]

\* lines 85-95: defaults, then the backpressure decision (bp_next: the
\* number of values taken from the backpressure source on this edge)
Defaults(m, ready) ==
    [m EXCEPT !.hready = IF ready THEN "1" ELSE GetDef, !.hresp = "OKAY",
              !.ev.bp_next = IF cfg.bp THEN 1 ELSE 0]

\* lines 97-105: the two cycles of the error response
ErrorStep(m, cur_hresp) ==
    IF cur_hresp = "OKAY"
    THEN [m EXCEPT !.hready = "0", !.hresp = "ERROR", !.ev.err_step = 1]
    ELSE [m EXCEPT !.hready = "1", !.hresp = "ERROR", !.error = FALSE,
                   !.ev.err_step = 2]

\* Faulty variant: a completed read leaves its data on hrdata.
RdComplete_KeepData(m, cur_hready) ==
    IF m.rd_start /\ Truthy(cur_hready)
    THEN [m EXCEPT !.rd_start = FALSE, !.ev.rd_done = TRUE]
    ELSE m

\* lines 107-109: a pending read completes
RdComplete(m, cur_hready) ==
    IF m.rd_start /\ Truthy(cur_hready)
    THEN [m EXCEPT !.rd_start = FALSE, !.hrdata = GetDefData, !.ev.rd_done = TRUE]
    ELSE m

\* Faulty variant: a completed write stays pending.
WrComplete_KeepPending(m, cur_hready, hwdata) ==
    IF m.wr_start /\ Truthy(cur_hready)
    THEN IF m.txn_type = "WRITE"
         THEN [m EXCEPT !.memory = Wr(m.memory, m.txn_addr, m.txn_size, hwdata),
                        !.hrdata = Val(0), !.hresp = "OKAY",
                        !.ev.wr_done = TRUE, !.ev.wr_call = TRUE,
                        !.ev.wr_value = hwdata]
         ELSE [m EXCEPT !.wr_start = FALSE, !.ev.wr_done = TRUE]
    ELSE m

\* lines 111-116: a pending write completes
WrComplete(m, cur_hready, hwdata) ==
    IF m.wr_start /\ Truthy(cur_hready)
    THEN IF m.txn_type = "WRITE"
         THEN [m EXCEPT !.wr_start = FALSE,
                        !.memory = Wr(m.memory, m.txn_addr, m.txn_size, hwdata),
                        !.hrdata = Val(0), !.hresp = "OKAY",
                        !.ev.wr_done = TRUE, !.ev.wr_call = TRUE,
                        !.ev.wr_value = hwdata]
         ELSE [m EXCEPT !.wr_start = FALSE, !.ev.wr_done = TRUE]
    ELSE m

\* lines 97-116
Respond(m, cur_hready, cur_hresp, hwdata) ==
    IF m.error /\ (cur_hresp = "OKAY" \/ cur_hresp = "ERROR")
    THEN ErrorStep(m, cur_hresp)
    ELSE WrComplete(RdComplete(m, cur_hready), cur_hready, hwdata)

\* Faulty variant: a rejected read does not force hready low.
AcceptRead_NoStall(m) ==
    IF ~ChkRd(m.txn_addr, m.txn_size)
    THEN [m EXCEPT !.error = TRUE, !.ev.chk_call = TRUE, !.ev.rejected = TRUE]
    ELSE [m EXCEPT !.rd_start = TRUE,
                   !.hrdata = Val(Rd(m.memory, m.txn_addr, m.txn_size)),
                   !.hresp = "OKAY", !.ev.chk_call = TRUE, !.ev.rd_call = TRUE]

\* Faulty variant: an accepted read is not marked pending.
AcceptRead_NoPending(m) ==
    IF ~ChkRd(m.txn_addr, m.txn_size)
    THEN [m EXCEPT !.hready = "0", !.error = TRUE,
                   !.ev.chk_call = TRUE, !.ev.rejected = TRUE]
    ELSE [m EXCEPT !.hrdata = Val(Rd(m.memory, m.txn_addr, m.txn_size)),
                   !.hresp = "OKAY", !.ev.chk_call = TRUE, !.ev.rd_call = TRUE]

\* Faulty variant: a rejected write is still marked pending.
AcceptWrite_KeepPending(m) ==
    IF ~ChkWr(m.txn_addr, m.txn_size)
    THEN [m EXCEPT !.hready = "0", !.hrdata = Val(0), !.error = TRUE,
                   !.wr_start = TRUE, !.ev.chk_call = TRUE, !.ev.rejected = TRUE]
    ELSE [m EXCEPT !.wr_start = TRUE, !.hresp = "OKAY", !.ev.chk_call = TRUE]

\* lines 129-137
AcceptWrite(m) ==
    IF ~ChkWr(m.txn_addr, m.txn_size)
    THEN [m EXCEPT !.hready = "0", !.hrdata = Val(0), !.error = TRUE,
                   !.wr_start = FALSE, !.ev.chk_call = TRUE, !.ev.rejected = TRUE]
    ELSE [m EXCEPT !.wr_start = TRUE, !.hresp = "OKAY", !.ev.chk_call = TRUE]

\* lines 139-146
AcceptRead(m) ==
    IF ~ChkRd(m.txn_addr, m.txn_size)
    THEN [m EXCEPT !.hready = "0", !.error = TRUE,
                   !.ev.chk_call = TRUE, !.ev.rejected = TRUE]
    ELSE [m EXCEPT !.rd_start = TRUE,
                   !.hrdata = Val(Rd(m.memory, m.txn_addr, m.txn_size)),
                   !.hresp = "OKAY", !.ev.chk_call = TRUE, !.ev.rd_call = TRUE]

\* lines 124-146: the body of the new-transaction branch
Latch(m, c, p) ==
    LET l == [m EXCEPT !.txn_addr = p.addr, !.txn_size = p.size,
                       !.txn_type = c.hwrite, !.ev.latched = TRUE]
    IN  IF CheckSizeRaises(Pow2(l.txn_size), cfg.data_width)
        THEN [l EXCEPT !.fatal = TRUE, !.ev.raised = TRUE]
        ELSE IF l.txn_type = "WRITE" THEN AcceptWrite(l) ELSE AcceptRead(l)

\* Faulty variant: the sampled hready is left out of the condition.
AcceptCond_AnyReady(cur_hready, c) ==
    CheckInputs(c) /\ CheckValidTxn(c)

\* lines 118-123: the condition of the new-transaction branch
AcceptCond(cur_hready, c) ==
    IsOne(cur_hready) /\ CheckInputs(c) /\ CheckValidTxn(c)

\* lines 118-146
Accept(m, cur_hready, c, p) ==
    IF AcceptCond(cur_hready, c) THEN Latch(m, c, p) ELSE m

\* Faulty variant: a rejection on the edge undoes the write that completed
\* on it.
ProcTxn_RejectDropsWrite(m, c, p, ready, hwdata) ==
    LET cur_hready == m.hready
        cur_hresp == m.hresp
        n == Accept(Respond(Defaults(m, ready), cur_hready, cur_hresp, hwdata),
                    cur_hready, c, p)
    IN  IF n.ev.rejected THEN [n EXCEPT !.memory = m.memory] ELSE n

\* lines 80-146: one iteration of the loop of _proc_txn
ProcTxn(m, c, p, ready, hwdata) ==
    LET cur_hready == m.hready
        cur_hresp == m.hresp
    IN  Accept(Respond(Defaults(m, ready), cur_hready, cur_hresp, hwdata),
               cur_hready, c, p)

\* ------------------------------------------------------------- inputs
(***************************************************************************)
(* The master presents its control signals on every edge.  _check_inputs   *)
(* returns at the first unresolvable signal (lines 169-172), so the        *)
(* signals after it in its order are not read and are left open ("-": any  *)
(* value).  The integer values of haddr and hsize are read at lines        *)
(* 124-125 only, and hwdata at line 114 only: each is drawn on the edges   *)
(* that can read it.                                                       *)
(***************************************************************************)
TransVals == {"IDLE", "BUSY", "NONSEQ", "SEQ"}
WriteVals == {"READ", "WRITE"}
SelVals(exist) == IF exist THEN {"0", "1"} ELSE {"none"}
\* next(self.bp), or True when no source is configured (lines 89-92)
BpVals == IF cfg.bp THEN BOOLEAN ELSE {TRUE}

Ctl(t, w, a, s, sel, rin) ==
    [htrans |-> t, hwrite |-> w, haddr |-> a, hsize |-> s,
     hsel |-> sel, hready_in |-> rin]

Unread == Ctl("-", "-", "-", "-", "-", "-")

Controls ==
    {Ctl("X", "-", "-", "-", "-", "-")}
    \cup {Ctl(t, "X", "-", "-", "-", "-") : t \in TransVals}
    \cup {Ctl(t, w, "X", "-", "-", "-") : t \in TransVals, w \in WriteVals}
    \cup {Ctl(t, w, "res", "X", "-", "-") : t \in TransVals, w \in WriteVals}
    \cup {Ctl(x[1], x[2], "res", "res", x[3], x[4]) :
            x \in TransVals \X WriteVals \X SelVals(cfg.hsel_exist)
                  \X SelVals(cfg.hready_in_exist)}

Payloads == [addr : 0..MaxAddr, size : 0..MaxSize]

\* hwdata is as wide as the bus: the raw patterns cut to its width
HwdataVals(width) == {v % Pow2(8 * width) : v \in HwdataRaw}

\* ------------------------------------------------------------- behaviour
\* What the master and the backpressure source presented on an edge: whether
\* a control signal was unresolvable, whether htrans was NONSEQ or SEQ (neither
\* IDLE nor BUSY), the optional wires and the backpressure decision.
Observe(c, ready) ==
    [seen |-> c.htrans # "-",
     unres |-> (c.htrans = "X" \/ c.hwrite = "X" \/ c.haddr = "X" \/ c.hsize = "X"),
     active |-> c.htrans \in {"NONSEQ", "SEQ"},
     hsel |-> c.hsel, hready_in |-> c.hready_in, ready |-> ready]

\* __init__, _init_bus and the prologue of _proc_txn (lines 26-77)
InitMachine ==
    /\ wr_start = FALSE /\ rd_start = FALSE /\ error = FALSE
    /\ txn_addr = 0 /\ txn_size = 2 /\ txn_type = "READ"
    /\ hready = GetDef /\ hresp = GetDefResp /\ hrdata = GetDefData
    /\ memory = [a \in 0..(MemSize - 1) |-> 0]
    /\ fatal = FALSE
    /\ ev = NoEv
    /\ obs = Observe(Unread, TRUE)
    /\ rej_hist = <<FALSE, FALSE, FALSE, FALSE>>
    /\ last_wr = [some |-> FALSE, addr |-> 0, size |-> 0, value |-> 0]

Init ==
    /\ cfg \in Configs
    /\ wvals = {0}
    /\ InitMachine

\* One rising edge: the whole iteration of the loop of _proc_txn.
Edge ==
    /\ ~fatal
    /\ \E ready \in BpVals, c \in Controls :
        /\ obs' = Observe(c, ready)
        /\ \E hwdata \in (IF wr_start THEN wvals ELSE {0}) :
           \E p \in (IF AcceptCond(hready, c) THEN Payloads ELSE {[addr |-> 0, size |-> 0]}) :
           \E n \in {ProcTxn(Machine, c, p, ready, hwdata)} :
            /\ wr_start' = n.wr_start /\ rd_start' = n.rd_start /\ error' = n.error
            /\ txn_addr' = n.txn_addr /\ txn_size' = n.txn_size
            /\ txn_type' = n.txn_type
            /\ hready' = n.hready /\ hresp' = n.hresp /\ hrdata' = n.hrdata
            /\ memory' = n.memory /\ fatal' = n.fatal
            /\ ev' = n.ev
            /\ rej_hist' = <<n.ev.rejected, rej_hist[1], rej_hist[2], rej_hist[3]>>
    /\ UNCHANGED <<cfg, wvals>>

Next == Edge /\ UNCHANGED last_wr

Spec == Init /\ [][Next]_vars

\* An edge on which the backpressure source yields True (line 90), or on
\* which no source is configured (line 92).
GrantEdge == Next /\ obs'.ready

\* The memory-backed responder with a backpressure source and a default
\* drive value that leaves hready not ready on a denial.  The loop of
\* _proc_txn takes every rising edge until it raises, and an edge on which
\* the source grants is possible at every one of them: the clock keeps
\* ticking and the source grants again and again.
InitLive ==
    /\ cfg \in {c \in AllConfigs :
                 /\ c.variant = "ram" /\ c.bp /\ c.def_val # "1"
                 /\ ~c.hsel_exist /\ ~c.hready_in_exist}
    /\ wvals = {0}
    /\ InitMachine

SpecLive == InitLive /\ [][Next]_vars /\ WF_vars(GrantEdge)

\* The memory-backed responder with a master that drives data: the storage
\* contents vary (under Spec every write stores 0 into zeroed storage).
InitData ==
    /\ cfg \in {c \in AllConfigs :
                 /\ c.variant = "ram" /\ c.def_val = "0" /\ c.bp
                 /\ ~c.hsel_exist /\ ~c.hready_in_exist}
    /\ wvals = HwdataVals(cfg.data_width)
    /\ InitMachine

\* The write dispatched on this edge (line 114), with the address and size
\* that were latched before the edge.
TrackWrite ==
    last_wr' = IF ev'.wr_call
               THEN [some |-> TRUE, addr |-> txn_addr, size |-> txn_size,
                     value |-> ev'.wr_value]
               ELSE last_wr

NextData == Edge /\ TrackWrite

SpecData == InitData /\ [][NextData]_vars

\* The memory-backed responder with the unresolved default drive value and
\* a master that drives one data pattern (the smallest): the default of
\* hrdata differs from every value a read or a rejected write drives.
InitDataZ ==
    /\ cfg \in {c \in AllConfigs :
                 /\ c.variant = "ram" /\ c.def_val = "Z" /\ c.bp
                 /\ ~c.hsel_exist /\ ~c.hready_in_exist}
    /\ wvals = {v \in HwdataVals(cfg.data_width) :
                    \A w \in HwdataVals(cfg.data_width) : v <= w}
    /\ InitMachine

SpecDataZ == InitDataZ /\ [][NextData]_vars

\* ------------------------------------------------------------- claims
\* An edge has been processed (the initial state records no inputs).
EdgeSeen == obs.seen

\* The control inputs of the last edge form a valid address phase.
PresentedValid ==
    /\ ~obs.unres
    /\ obs.active
    /\ cfg.hsel_exist => obs.hsel = "1"
    /\ cfg.hready_in_exist => obs.hready_in = "1"

\* C1: after an address phase is rejected by the validity hook, the next
\* edge drives hready=0/hresp=ERROR with the error flag set, the edge after
\* it drives hready=1/hresp=ERROR and clears the flag, and the third edge
\* drives hresp=OKAY, whatever the backpressure source yields.
C1_ErrorSequence ==
    /\ rej_hist[1] => error /\ ~fatal
    /\ rej_hist[2] => hready = "0" /\ hresp = "ERROR" /\ error /\ ev.err_step = 1
    /\ rej_hist[3] => hready = "1" /\ hresp = "ERROR" /\ ~error /\ ev.err_step = 2
    /\ rej_hist[4] => hresp = "OKAY" /\ ev.err_step = 0

\* A memory-backed responder under a denying backpressure source has gone
\* through a whole error sequence and the edge after it.
C1_Witness ==
    /\ cfg.variant = "ram" /\ cfg.bp /\ ~obs.ready
    /\ rej_hist[4] /\ ~rej_hist[1]

\* C2: an edge that begins with the error flag set latches nothing, sets no
\* pending flag and starts no new error sequence.
C2_NoAcceptDuringError ==
    [][error =>
        /\ ~ev'.latched /\ ~ev'.rejected /\ ~ev'.chk_call
        /\ txn_addr' = txn_addr /\ txn_size' = txn_size /\ txn_type' = txn_type
        /\ ~rd_start' /\ ~wr_start']_vars

\* The second error cycle ran while the master presented a valid address
\* phase, and nothing was latched.
C2_Witness == ev.err_step = 2 /\ PresentedValid /\ ~ev.latched

\* C3: while a transfer is pending, an edge that follows a backpressure
\* denial completes nothing, and an edge that follows a grant completes the
\* pending transfer (dispatching a pending write), for every default value.
C3_DeferredCompletion ==
    [][(cfg.bp /\ (rd_start \/ wr_start)) =>
        IF obs.ready
        THEN /\ rd_start => ev'.rd_done
             /\ wr_start => ev'.wr_done /\ ev'.wr_call
        ELSE /\ ~ev'.rd_done /\ ~ev'.wr_done /\ ~ev'.wr_call
             /\ rd_start' = rd_start /\ wr_start' = wr_start]_vars

\* C4: a transaction is latched only on an edge whose control inputs are
\* resolvable, whose htrans is neither IDLE nor BUSY, and on which hsel (if
\* the wire is present) and hready_in (if the wire is present) are 1.
C4_LatchOnlyWhenValid == ev.latched => PresentedValid

\* C5: on an edge where htrans, hwrite, haddr or hsize is unresolvable no
\* transaction is latched, no flag is set, no hook is called and no fatal
\* error is raised.
C5_UnresolvableNotLatched ==
    [][obs'.unres =>
        /\ ~ev'.latched /\ ~ev'.chk_call /\ ~ev'.rd_call /\ ~ev'.rejected
        /\ ~ev'.raised /\ ~fatal'
        /\ txn_addr' = txn_addr /\ txn_size' = txn_size /\ txn_type' = txn_type
        /\ rd_start' => rd_start
        /\ wr_start' => wr_start
        /\ error' => error]_vars

\* An unresolvable control signal was presented on an edge that sampled
\* hready high (a pending read completed on it), and nothing was latched.
C5_Witness == obs.unres /\ obs.active /\ ev.rd_done /\ ~ev.latched

\* C6: a read latched at the address and size of the most recent dispatched
\* write presents on hrdata the written value cut to 2^size bytes, also when
\* the write completes on the very edge that latches the read; hresp is OKAY
\* on the edges that dispatch the write, latch the read and complete it.
C6_RoundTrip ==
    /\ (ev.rd_call /\ last_wr.some
            /\ txn_addr = last_wr.addr /\ txn_size = last_wr.size)
        => /\ hrdata = Val(last_wr.value % Pow2(8 * Pow2(txn_size)))
           /\ hresp = "OKAY"
    /\ (ev.wr_call \/ ev.rd_done) => hresp = "OKAY"

\* A byte write of a value wider than a byte completed on the edge that
\* latched a read of the same byte, and the read presents the low byte.
C6_Witness ==
    /\ ev.wr_call /\ ev.rd_call /\ last_wr.some
    /\ txn_addr = last_wr.addr /\ txn_size = last_wr.size
    /\ txn_size = 0 /\ last_wr.value > 255
    /\ hrdata.val = last_wr.value % 256

\* C7: after every edge at most one of rd_start, wr_start and error is set,
\* and on every edge at most one of read completion, write completion and
\* error-sequence step ran.
C7_OneDriver ==
    /\ ~(rd_start /\ wr_start) /\ ~(rd_start /\ error) /\ ~(wr_start /\ error)
    /\ ~(ev.rd_done /\ ev.wr_done)
    /\ ev.err_step # 0 => ~ev.rd_done /\ ~ev.wr_done

\* A pending read completed on the edge that latched a write.
C7_Witness == ev.rd_done /\ ev.latched /\ wr_start

\* C8: an otherwise acceptable address phase whose byte count exceeds the
\* bus width raises the fatal error on that edge: no pending flag, no error
\* sequence, no validity or read hook for it, and no edge is processed
\* afterwards.
C8_FatalSize ==
    [][/\ ~fatal
       /\ (ev'.latched /\ Pow2(txn_size') > cfg.data_width) =>
            /\ fatal' /\ ev'.raised
            /\ ~rd_start' /\ ~wr_start' /\ ~error'
            /\ ~ev'.chk_call /\ ~ev'.rd_call /\ ~ev'.rejected
       /\ fatal' => (ev'.latched /\ Pow2(txn_size') > cfg.data_width)]_vars

\* The fatal error was raised on an edge that also completed a pending write.
C8_Witness == fatal /\ ev.raised /\ ev.wr_call /\ Pow2(txn_size) > cfg.data_width

\* C9: after the second error cycle no flag is set and hready is 1; a valid
\* address phase presented on the next edge is latched on it and, unless it
\* is rejected or oversized, is marked pending with hresp OKAY.
C9_Recoverable ==
    /\ rej_hist[3] => ~error /\ ~rd_start /\ ~wr_start /\ hready = "1" /\ ~fatal
    /\ (rej_hist[4] /\ PresentedValid) =>
        /\ ev.latched
        /\ (~ev.rejected /\ ~fatal) => ((rd_start \/ wr_start) /\ hresp = "OKAY")
        /\ ev.rejected => error /\ hready = "0"

\* A read presented on the first edge after an error sequence is pending.
C9_Witness == rej_hist[4] /\ PresentedValid /\ ev.rd_call /\ rd_start /\ hresp = "OKAY"

C11_AccessInBounds ==
    [][cfg.variant = "ram" =>
        /\ ev'.chk_call =>
            /\ ev'.rejected <=> (txn_addr' + Pow2(txn_size') > MemSize)
            /\ ev'.rejected <=> ~(rd_start' \/ wr_start')
            /\ ev'.rejected <=> error'
        /\ ev'.rd_call => MemInBounds(txn_addr', Pow2(txn_size'))
        /\ ev'.wr_call => MemInBounds(txn_addr, Pow2(txn_size))
        /\ (rd_start' \/ wr_start') => MemInBounds(txn_addr', Pow2(txn_size'))]_vars

\* On the memory-backed responder a pending write was dispatched on the edge
\* that refused an access reaching exactly one byte beyond the storage.
C11_Witness ==
    /\ cfg.variant = "ram" /\ ev.wr_call /\ ev.rejected
    /\ txn_addr + Pow2(txn_size) = MemSize + 1

\* C12: an edge latches an address phase, calls a validity hook or completes
\* a pending read or write only if the hready it samples (the value driven
\* before the edge) is 1; with a sampled 0 or unresolved value the pending
\* flags and the latched transaction are left as they were.
C12_SampledReadyGates ==
    [][hready # "1" =>
        /\ ~ev'.latched /\ ~ev'.chk_call /\ ~ev'.rd_call /\ ~ev'.rejected
        /\ ~ev'.rd_done /\ ~ev'.wr_done /\ ~ev'.wr_call
        /\ rd_start' = rd_start /\ wr_start' = wr_start
        /\ txn_addr' = txn_addr /\ txn_size' = txn_size /\ txn_type' = txn_type
        /\ memory' = memory]_vars

\* With the unresolved default a read stayed pending over an edge on which
\* the master presented a valid address phase: the edge sampled the default
\* left by a backpressure denial, completed nothing and latched nothing.
C12_Witness ==
    /\ cfg.def_val = "Z" /\ cfg.bp /\ rd_start
    /\ PresentedValid /\ ~ev.latched /\ ~ev.rd_done

\* C13: a write becomes pending only by a latched address phase that passes
\* the validity hook; a pending write is dispatched to the write hook on the
\* first edge that samples hready 1, once, with the address and size latched
\* for it and the hwdata of that edge, and until then it stays pending with
\* its address and size; nothing is dispatched that is not pending.
C13_WriteDispatch ==
    [][/\ (wr_start' /\ (~wr_start \/ ev'.wr_call)) =>
            /\ ev'.latched /\ ev'.chk_call /\ ~ev'.rejected
            /\ txn_type' = "WRITE"
       /\ (wr_start /\ hready = "1") =>
            /\ ev'.wr_call /\ ev'.wr_done
            /\ ev'.wr_value \in wvals
            /\ memory' = Wr(memory, txn_addr, txn_size, ev'.wr_value)
       /\ (wr_start /\ hready # "1") =>
            /\ ~ev'.wr_call /\ wr_start' /\ memory' = memory
            /\ txn_addr' = txn_addr /\ txn_size' = txn_size
            /\ txn_type' = txn_type
       /\ ev'.wr_call => wr_start /\ hready = "1"
       /\ ~ev'.wr_call => memory' = memory]_vars

\* A halfword write at address 0 was dispatched with its own address and
\* size on the edge that latched a byte write at address 1.
C13_Witness ==
    /\ ev.wr_call /\ wr_start /\ txn_addr = 1 /\ txn_size = 0
    /\ last_wr.addr = 0 /\ last_wr.size = 1 /\ last_wr.value > 255
    /\ memory[0] = last_wr.value % 256
    /\ memory[1] = last_wr.value \div 256

\* C14: the edge that rejects a write drives hready 0 and hrdata 0, sets
\* the error flag and leaves no write pending; the edge that rejects a read
\* drives hready 0, sets the error flag and calls no read hook; the storage
\* is changed on a rejection edge only by an earlier write completing on it,
\* and during the error sequence that follows no hook is called and the
\* storage does not change: the rejected transfer never reaches the storage.
C14_RejectedAbandoned ==
    [][/\ (ev'.rejected /\ txn_type' = "WRITE") =>
            /\ hready' = "0" /\ hrdata' = Val(0) /\ error'
            /\ ~wr_start' /\ ~rd_start'
       /\ (ev'.rejected /\ txn_type' = "READ") =>
            /\ hready' = "0" /\ error' /\ ~ev'.rd_call
            /\ ~wr_start' /\ ~rd_start'
       /\ ev'.rejected =>
            memory' = IF ev'.wr_call
                      THEN Wr(memory, txn_addr, txn_size, ev'.wr_value)
                      ELSE memory
       /\ error =>
            /\ ~ev'.wr_call /\ ~ev'.rd_call /\ memory' = memory
            /\ ~wr_start' /\ ~rd_start'
       /\ ev'.wr_call => wr_start]_vars

\* The error sequence of a rejected write has ended; the storage holds the
\* value of an earlier write and nothing is pending.
C14_Witness ==
    /\ rej_hist[3] /\ txn_type = "WRITE" /\ txn_addr + Pow2(txn_size) > MemSize
    /\ last_wr.some /\ last_wr.addr = 0 /\ last_wr.size = 0
    /\ memory[0] = last_wr.value % 256 /\ memory[0] # 0
    /\ ~wr_start /\ ~error

\* C15 as stated: the edge that rejects a read or write and every edge of
\* the error sequence drive hready 0, whatever the backpressure source
\* yields.
C15_ForcedLow ==
    (ev.rejected \/ ev.err_step # 0) => hready = "0"

\* C15 amended: the rejection edge and the first error cycle drive hready 0
\* even when the backpressure source grants, and the second error cycle
\* drives hready 1 even when it denies.
C15_ForcedByErrors ==
    /\ (ev.rejected \/ ev.err_step = 1) => hready = "0"
    /\ ev.err_step = 2 => hready = "1"
    /\ rej_hist[1] => ev.rejected
    /\ rej_hist[2] => ev.err_step = 1
    /\ rej_hist[3] => ev.err_step = 2

\* The first error cycle ran on an edge where the backpressure source
\* granted readiness.
C15_Witness == cfg.bp /\ obs.ready /\ ev.err_step = 1 /\ hready = "0"

\* C16: after every edge on which no error cycle ran and nothing was
\* rejected, hready is 1 if the backpressure source granted (or none is
\* configured) and the default drive value otherwise, and hresp is OKAY;
\* every edge, error cycles included, takes exactly one value from a
\* configured backpressure source.
C16_DefaultDrive ==
    EdgeSeen =>
        /\ (ev.err_step = 0 /\ ~ev.rejected) =>
            /\ hready = (IF obs.ready THEN "1" ELSE GetDef)
            /\ hresp = "OKAY"
        /\ ev.bp_next = (IF cfg.bp THEN 1 ELSE 0)
        /\ ~cfg.bp => obs.ready

\* With the unresolved default, a transfer was accepted on an edge where the
\* backpressure source denied readiness: hready is left unresolved.
C16_Witness ==
    /\ cfg.def_val = "Z" /\ cfg.bp /\ ~obs.ready
    /\ ev.latched /\ ~ev.rejected /\ ~fatal
    /\ hready = "Z" /\ hresp = "OKAY"

\* C17: the edge that latches an accepted read drives hrdata with the read
\* hook's result for the latched address and size, taken from the storage
\* as that edge leaves it; while the read is pending and the sampled hready
\* is not 1 hrdata keeps that value; the first edge that samples hready 1
\* completes the read and leaves hrdata at the default drive value, unless
\* a read latched on that edge drives its own data or a write rejected on
\* that edge drives 0.
C17_ReadData ==
    [][/\ ev'.rd_call =>
            /\ rd_start'
            /\ hrdata' = Val(Rd(memory', txn_addr', txn_size'))
       /\ (rd_start /\ hready # "1") =>
            /\ rd_start' /\ ~ev'.rd_done /\ hrdata' = hrdata
       /\ (rd_start /\ hready = "1") =>
            /\ ev'.rd_done
            /\ hrdata' = IF ev'.rd_call
                         THEN Val(Rd(memory', txn_addr', txn_size'))
                         ELSE IF ev'.rejected /\ txn_type' = "WRITE"
                         THEN Val(0)
                         ELSE GetDefData
       /\ rd_start' => hrdata' = Val(Rd(memory', txn_addr', txn_size'))]_vars

\* A halfword read of written data is pending after a wait-state edge and
\* hrdata still carries the data.
C17_Witness ==
    /\ rd_start /\ ~ev.rd_call /\ ~ev.latched /\ txn_size = 1
    /\ hrdata = Val(MemRead(memory, txn_addr, 2)) /\ hrdata.val > 255
    /\ GetDefData = Unres

\* C18: over an edge that does not complete the pending transfer the
\* latched address, size and direction and the pending flag are unchanged;
\* a pending write has direction WRITE (a pending read READ), so a write
\* completion always dispatches; an edge latches an address phase only when
\* the transfer pending before it has completed on that edge.
C18_PendingKept ==
    [][/\ ((rd_start /\ ~ev'.rd_done) \/ (wr_start /\ ~ev'.wr_done)) =>
            /\ txn_addr' = txn_addr /\ txn_size' = txn_size
            /\ txn_type' = txn_type
            /\ rd_start' = rd_start /\ wr_start' = wr_start
            /\ ~ev'.latched
       /\ wr_start' => txn_type' = "WRITE"
       /\ rd_start' => txn_type' = "READ"
       /\ ev'.wr_done => ev'.wr_call
       /\ ev'.latched =>
            /\ rd_start => ev'.rd_done
            /\ wr_start => ev'.wr_done]_vars

\* A write stayed pending over an edge on which the master presented a
\* valid address phase: nothing was latched over it.
C18_Witness ==
    /\ wr_start /\ PresentedValid /\ ~ev.latched /\ ~ev.wr_done
    /\ txn_type = "WRITE"

\* C19: when the clock keeps ticking and the backpressure source grants
\* again and again, every pending read and every pending write completes,
\* every error sequence ends (the flag is clear after the second edge that
\* follows the rejection edge), and hready is driven 1 again and again until
\* a fatal size error ends the task.
C19_Progress ==
    /\ (rd_start /\ ~ev.rd_done) ~> ev.rd_done
    /\ (wr_start /\ ~ev.wr_done) ~> ev.wr_done
    /\ error ~> ~error
    /\ [](rej_hist[3] => ~error)
    /\ []<>(hready = "1" \/ fatal)

\* With default drive value 0 a pending read completed on an edge where the
\* backpressure source denied readiness: the grant that let it complete was
\* an earlier one.
C19_Witness ==
    /\ cfg.bp /\ cfg.def_val = "0" /\ ~obs.ready
    /\ ev.rd_done /\ ~rd_start /\ ~ev.latched /\ hready = "0"

\* C20: on an edge that latches a new address phase while a write is
\* pending, the write is dispatched with the address and size latched
\* before the edge and the storage is exactly what that dispatch leaves,
\* whether the new address phase is accepted, rejected (hready 0, error
\* sequence started) or raises the fatal size error.
C20_CompletionFirst ==
    [][(wr_start /\ ev'.latched) =>
        /\ ev'.wr_done /\ ev'.wr_call
        /\ memory' = Wr(memory, txn_addr, txn_size, ev'.wr_value)
        /\ ev'.rejected => (hready' = "0" /\ error' /\ ~wr_start' /\ ~rd_start')
        /\ ev'.raised => (fatal' /\ ~wr_start' /\ ~rd_start' /\ ~error')
        /\ (ev'.rejected \/ ev'.raised \/ wr_start' \/ rd_start')]_vars

\* A byte write to address 0 was dispatched on the edge that rejected a
\* halfword transfer at address 1: the byte at address 0 carries the data.
C20_Witness ==
    /\ ev.wr_call /\ ev.rejected /\ txn_addr = 1 /\ txn_size = 1
    /\ last_wr.addr = 0 /\ last_wr.size = 0
    /\ memory[0] = last_wr.value % 256 /\ memory[0] # 0

=============================================================================
